---- MODULE Spec2Model ----
(***************************************************************************)
(* A model of src/server/aesdsocket.c: the main flow of the server (setup, *)
(* accept loop, receive loop, send_file_back, shutdown phase) interleaved  *)
(* with the asynchronous signal handler.                                   *)
(*                                                                         *)
(* The main flow is a sequential program; pc is its position.  Every      *)
(* system call is one action per outcome the call can have.  The signal   *)
(* handler may run between any two steps of the main flow.                 *)
(*                                                                         *)
(* The stdio stream fp is modelled as a user-space buffer (fbuf) in front  *)
(* of the file content (file): fwrite copies into fbuf, fflush moves fbuf  *)
(* into file, fread reads file.  An I/O error of the underlying write      *)
(* surfaces at fflush.                                                     *)
(***************************************************************************)
EXTENDS Integers, Sequences, FiniteSets, TLC

(* ---------------- bounds of the model -------------------------------- *)

\* capacity of receive_buffer (4096 in the source, scaled down)
MAX_RECV_BUF_LEN == 3
\* bytes received over all connections
MaxBytes == 4
\* connections accepted during the server's lifetime
MaxConns == 2
\* failing system calls injected during the server's lifetime
MaxFaults == 1

(* ---------------- program constants ---------------------------------- *)

\* '\n', the record delimiter
NL == 10
\* the value of a descriptor that is not open
NoFd == -1
\* the descriptor socket() returns
ListenFd == 0

\* the bytes a client may send: the delimiter and one other value (the program
\* compares a byte with '\n' only, and copies it otherwise)
Byte == {NL, 97}

VARIABLES
    pc,             \* position of the main flow
    exit_flag,      \* volatile sig_atomic_t exit_flag
    exit_status,    \* "running", or the status the process exited with
    sock_fd,        \* global sock_fd
    sock_state,     \* kernel state of the listening socket
    conn_fd,        \* global conn_fd
    acc_ret,        \* value accept() returned, before it is stored in conn_fd
    err_no,         \* errno left by the last failing accept()
    open_conns,     \* accepted connection descriptors that are open
    shut_conns,     \* open connection descriptors that were shut down
    closes,         \* close() calls made on each connection descriptor
    fp_open,        \* the stream fp is open
    fbuf,           \* bytes written to fp and not yet flushed
    file,           \* content of DATA_FILE
    file_exists,    \* DATA_FILE exists
    synced,         \* the content of DATA_FILE has been fsync'ed
    receive_buffer, \* receive_buffer[0, total_received)
    msg_len,        \* result of the last recv()
    line_len,       \* line_len of the record being echoed
    caller,         \* call site of the running send_file_back
    sig_logged,     \* the handler has called syslog
    conn_count,     \* history: connections accepted so far
    nbytes,         \* history: bytes received so far, all connections
    faults,         \* history: failures injected so far
    stream,         \* history: bytes received on the current connection
    appended,       \* history: fwrite calls of the current connection
    echoes,         \* history: complete echoes sent, all connections
    echo_calls,     \* history: send_file_back calls of the current connection
    sfb_fails,      \* history: failed send_file_back calls, current connection
    io_fails,       \* history: failed store calls outside send_file_back, current connection
    prior,          \* history: completed records of the earlier connections
    at_open,        \* history: content of DATA_FILE when fp was opened
    sa_pc,          \* sendall: position of the running call, "idle" for none
    sa_buf,         \* sendall: the len bytes of buf
    sa_offset,      \* sendall: offset
    sa_n,           \* sendall: n, the result of the last send()
    sa_ret,         \* sendall: the value returned
    sa_sent         \* history: bytes the send() calls of this call accepted

vars == << pc, exit_flag, exit_status, sig_logged, sock_fd, sock_state,
           conn_fd, acc_ret,
           err_no, open_conns, shut_conns, closes, fp_open, fbuf, file,
           file_exists, synced, receive_buffer, msg_len, line_len, caller,
           conn_count, nbytes, faults, stream, appended, echoes, echo_calls,
           sfb_fails, io_fails, prior, at_open,
           sa_pc, sa_buf, sa_offset, sa_n, sa_ret, sa_sent >>

sendVars == << sa_pc, sa_buf, sa_offset, sa_n, sa_ret, sa_sent >>
sockVars == << sock_fd, sock_state >>
connVars == << conn_fd, acc_ret, err_no, open_conns, shut_conns, closes >>
fileVars == << fp_open, fbuf, file, file_exists, synced >>
bufVars  == << receive_buffer, msg_len, line_len >>
histVars == << conn_count, nbytes, stream, appended, echoes, echo_calls,
               sfb_fails, io_fails, prior, at_open >>

(* ---------------- pure helpers --------------------------------------- *)

Min(a, b) == IF a < b THEN a ELSE b

\* the non-empty byte sequences of length at most n
Chunks(n) == UNION { [1..k -> Byte] : k \in 1..n }

IsPrefix(s, t) == Len(s) <= Len(t) /\ SubSeq(t, 1, Len(s)) = s

IsSuffix(s, t) ==
    Len(s) <= Len(t) /\ SubSeq(t, Len(t) - Len(s) + 1, Len(t)) = s

\* total_received: the number of pending bytes of receive_buffer
total_received == Len(receive_buffer)

\* memchr started one byte too far: a newline in receive_buffer[0] is missed
MemchrFromSecond(buf) ==
    IF \E i \in 2..Len(buf) : buf[i] = NL
    THEN CHOOSE i \in 2..Len(buf) :
            /\ buf[i] = NL
            /\ \A j \in 2..(i - 1) : buf[j] # NL
    ELSE 0

\* memchr(receive_buffer, '\n', total_received): index (from 1) of the first
\* newline, 0 for NULL
Memchr(buf) ==
    IF \E i \in 1..Len(buf) : buf[i] = NL
    THEN CHOOSE i \in 1..Len(buf) :
            /\ buf[i] = NL
            /\ \A j \in 1..(i - 1) : buf[j] # NL
    ELSE 0

\* total_received = 0 after a record, without the memmove: what followed the
\* record in the buffer is dropped
CompactDropsRest(buf, n) == << >>

\* memmove(receive_buffer, nl + 1, remaining); total_received = remaining
Compact(buf, n) == SubSeq(buf, n + 1, Len(buf))

\* fwrite(data, 1, n, fp): the bytes go to the end of the stream's buffer
Fwrite(buffered, data) == buffered \o data

\* fflush(fp) on a stream opened "a+": the buffered bytes go to the end of
\* the file
Fflush(content, buffered) == content \o buffered

\* rewind(fp) and the fread loop: the whole content of the file, from offset 0
ReadAll(content) == content

(* ---------------- initial state --------------------------------------- *)

\* main() has installed the handlers and opened the log (lines 235-239); a
\* data file of an earlier run may still exist.
InitServer ==
    /\ pc = "start"
    /\ exit_flag = 0
    /\ exit_status = "running"
    /\ sock_fd = NoFd
    /\ sock_state = "none"
    /\ conn_fd = NoFd
    /\ acc_ret = NoFd
    /\ err_no = "none"
    /\ open_conns = {}
    /\ shut_conns = {}
    /\ closes = [c \in 1..MaxConns |-> 0]
    /\ fp_open = FALSE
    /\ fbuf = << >>
    /\ \E old \in {<< >>, <<98, NL>>} :
          /\ file = old
          /\ file_exists = (old # << >>)
    /\ synced = TRUE
    /\ receive_buffer = << >>
    /\ msg_len = 0
    /\ line_len = 0
    /\ caller = "none"
    /\ sig_logged = FALSE
    /\ conn_count = 0
    /\ nbytes = 0
    /\ faults = 0
    /\ stream = << >>
    /\ appended = << >>
    /\ echoes = << >>
    /\ echo_calls = 0
    /\ sfb_fails = 0
    /\ io_fails = 0
    /\ prior = << >>
    /\ at_open = << >>

\* the initial state of the server; no sendall call is looked at on its own
Init ==
    /\ InitServer
    /\ sa_pc = "idle"
    /\ sa_buf = << >>
    /\ sa_offset = 0
    /\ sa_n = 0
    /\ sa_ret = 0
    /\ sa_sent = << >>

(* ---------------- the signal handler ---------------------------------- *)

\* a handler that leaves the listening socket alone
ShutdownListenMissing(fd, state) == state

\* shutdown(sock_fd, SHUT_RDWR): a listening socket stops listening, which
\* makes a blocked or later accept() fail; any other descriptor state is left
\* as it is (ENOTCONN, EBADF)
ShutdownListen(fd, state) ==
    IF fd # NoFd /\ state = "listening" THEN "shut" ELSE state

\* shutdown(conn_fd, SHUT_RDWR): an open connection is shut down; on a
\* descriptor that is closed the call fails with EBADF
ShutdownConn(fd, shut) ==
    IF fd # NoFd /\ fd \in open_conns THEN shut \cup {fd} ELSE shut

\* signal_handler, run to completion between two steps of the main flow:
\* syslog (line 91), exit_flag = 1, and the two shutdown calls
signal_handler ==
    /\ pc # "exited"
    /\ exit_flag' = 1
    /\ sock_state' = ShutdownListen(sock_fd, sock_state)
    /\ shut_conns' = ShutdownConn(conn_fd, shut_conns)
    /\ sig_logged' = TRUE
    /\ UNCHANGED << sendVars,
                    pc, exit_status, sock_fd, conn_fd, acc_ret, err_no,
                    open_conns, closes, fileVars, bufVars, caller, faults,
                    histVars >>

(* ---------------- main: setup ----------------------------------------- *)

\* unlink(DATA_FILE) at line 240
Startup ==
    /\ pc = "start"
    /\ file_exists' = FALSE
    /\ file' = << >>
    /\ pc' = "socket"
    /\ UNCHANGED << sendVars, sig_logged,
                    exit_flag, exit_status, sockVars, connVars, fp_open, fbuf,
                    synced, bufVars, caller, faults, histVars >>

\* socket() succeeds
SocketOk ==
    /\ pc = "socket"
    /\ sock_fd' = ListenFd
    /\ sock_state' = "open"
    /\ pc' = "bind"
    /\ UNCHANGED << sendVars, sig_logged,
                    exit_flag, exit_status, connVars, fileVars, bufVars,
                    caller, faults, histVars >>

\* socket() fails: exit(EXIT_FAILURE)
SocketFail ==
    /\ pc = "socket"
    /\ sock_fd' = NoFd
    /\ pc' = "exited"
    /\ exit_status' = "EXIT_FAILURE"
    /\ UNCHANGED << sendVars, sig_logged,
                    exit_flag, sock_state, connVars, fileVars, bufVars,
                    caller, faults, histVars >>

\* bind() succeeds
BindOk ==
    /\ pc = "bind"
    /\ sock_state' = "bound"
    /\ pc' = "daemon"
    /\ UNCHANGED << sendVars, sig_logged,
                    exit_flag, exit_status, sock_fd, connVars, fileVars,
                    bufVars, caller, faults, histVars >>

\* a failing bind() that exits without close(sock_fd)
BindFailLeavesSocket ==
    /\ pc = "bind"
    /\ pc' = "exited"
    /\ exit_status' = "EXIT_FAILURE"
    /\ UNCHANGED << sendVars, sig_logged,
                    exit_flag, sockVars, connVars, fileVars, bufVars, caller,
                    faults, histVars >>

\* bind() fails: close(sock_fd); exit(EXIT_FAILURE)
BindFail ==
    /\ pc = "bind"
    /\ sock_state' = "closed"
    /\ pc' = "exited"
    /\ exit_status' = "EXIT_FAILURE"
    /\ UNCHANGED << sendVars, sig_logged,
                    exit_flag, sock_fd, connVars, fileVars, bufVars, caller,
                    faults, histVars >>

\* no "-d" argument, or fork() returned 0: this process goes on to listen()
DaemonContinue ==
    /\ pc = "daemon"
    /\ pc' = "listen"
    /\ UNCHANGED << sendVars, sig_logged,
                    exit_flag, exit_status, sockVars, connVars, fileVars,
                    bufVars, caller, faults, histVars >>

\* "-d" and fork() fails: close(sock_fd); exit(EXIT_FAILURE)
ForkFail ==
    /\ pc = "daemon"
    /\ sock_state' = "closed"
    /\ pc' = "exited"
    /\ exit_status' = "EXIT_FAILURE"
    /\ UNCHANGED << sendVars, sig_logged,
                    exit_flag, sock_fd, connVars, fileVars, bufVars, caller,
                    faults, histVars >>

\* listen(sock_fd, BACKLOG); a socket the handler already tried to shut down
\* was not listening then, and listens now
Listen ==
    /\ pc = "listen"
    /\ sock_state' = "listening"
    /\ pc' = "loop"
    /\ UNCHANGED << sendVars, sig_logged,
                    exit_flag, exit_status, sock_fd, connVars, fileVars,
                    bufVars, caller, faults, histVars >>

(* ---------------- main: the accept loop -------------------------------- *)

\* while(!exit_flag)
LoopCheck ==
    /\ pc = "loop"
    /\ pc' = IF exit_flag = 1 THEN "shutdown" ELSE "accept"
    /\ UNCHANGED << sendVars, sig_logged,
                    exit_flag, exit_status, sockVars, connVars, fileVars,
                    bufVars, caller, faults, histVars >>

\* accept() returns a new connection
AcceptConn ==
    /\ pc = "accept"
    /\ sock_state = "listening"
    /\ conn_count < MaxConns
    /\ conn_count' = conn_count + 1
    /\ acc_ret' = conn_count + 1
    /\ open_conns' = open_conns \cup {conn_count + 1}
    /\ err_no' = "none"
    /\ pc' = "accepted"
    /\ UNCHANGED << sendVars, sig_logged,
                    exit_flag, exit_status, sockVars, conn_fd, shut_conns,
                    closes, fileVars, bufVars, caller, faults, nbytes, stream,
                    appended, echoes, echo_calls, sfb_fails, io_fails, prior,
                    at_open >>

\* accept() fails because the handler shut the listening socket down: EINTR
\* when the signal interrupted the blocked call, another errno when the socket
\* was shut down before the call
AcceptShut ==
    /\ pc = "accept"
    /\ sock_state = "shut"
    /\ acc_ret' = NoFd
    /\ \E e \in {"EINTR", "EINVAL"} : err_no' = e
    /\ pc' = "accepted"
    /\ UNCHANGED << sendVars, sig_logged,
                    exit_flag, exit_status, sockVars, conn_fd, open_conns,
                    shut_conns, closes, fileVars, bufVars, caller, faults,
                    histVars >>

\* accept() fails for a reason of the network (ECONNABORTED, EMFILE, ...)
AcceptError ==
    /\ pc = "accept"
    /\ sock_state = "listening"
    /\ faults < MaxFaults
    /\ faults' = faults + 1
    /\ acc_ret' = NoFd
    /\ err_no' = "ECONNABORTED"
    /\ pc' = "accepted"
    /\ UNCHANGED << sendVars, sig_logged,
                    exit_flag, exit_status, sockVars, conn_fd, open_conns,
                    shut_conns, closes, fileVars, bufVars, caller, histVars >>

\* a test of lines 312-316 that leaves the accept loop on every error
AcceptStoreExitsOnError ==
    /\ pc = "accepted"
    /\ conn_fd' = acc_ret
    /\ pc' = IF acc_ret = NoFd THEN "shutdown" ELSE "fopen"
    /\ UNCHANGED << sendVars, sig_logged,
                    exit_flag, exit_status, sockVars, acc_ret, err_no,
                    open_conns, shut_conns, closes, fileVars, bufVars, caller,
                    faults, histVars >>

\* conn_fd = <value of accept()>, and the test of lines 312-316
AcceptStore ==
    /\ pc = "accepted"
    /\ conn_fd' = acc_ret
    /\ pc' = IF acc_ret = NoFd
             THEN IF exit_flag = 1 /\ err_no = "EINTR" THEN "shutdown"
                                                      ELSE "loop"
             ELSE "fopen"
    /\ UNCHANGED << sendVars, sig_logged,
                    exit_flag, exit_status, sockVars, acc_ret, err_no,
                    open_conns, shut_conns, closes, fileVars, bufVars, caller,
                    faults, histVars >>

\* index (from 1) of the last newline of s, 0 when it has none
LastNL(s) ==
    IF \E i \in 1..Len(s) : s[i] = NL
    THEN CHOOSE i \in 1..Len(s) :
            /\ s[i] = NL
            /\ \A j \in (i + 1)..Len(s) : s[j] # NL
    ELSE 0

\* the newline-terminated records of byte stream s, concatenated
Completed(s) == SubSeq(s, 1, LastNL(s))

\* fopen(DATA_FILE, "a+") succeeds: the file is created when it does not
\* exist; msg_len = 0; total_received = 0.  The history of the session starts.
FopenOk ==
    /\ pc = "fopen"
    /\ fp_open' = TRUE
    /\ file_exists' = TRUE
    /\ fbuf' = << >>
    /\ receive_buffer' = << >>
    /\ msg_len' = 0
    /\ pc' = "recv"
    /\ prior' = prior \o Completed(stream)
    /\ stream' = << >>
    /\ appended' = << >>
    /\ echo_calls' = 0
    /\ sfb_fails' = 0
    /\ io_fails' = 0
    /\ at_open' = file
    /\ UNCHANGED << sendVars, sig_logged,
                    exit_flag, exit_status, sockVars, connVars, file, synced,
                    line_len, caller, faults, conn_count, nbytes, echoes >>

\* fopen fails: close(conn_fd); continue.  conn_fd keeps its value.
FopenFail ==
    /\ pc = "fopen"
    /\ faults < MaxFaults
    /\ faults' = faults + 1
    /\ open_conns' = open_conns \ {conn_fd}
    /\ shut_conns' = shut_conns \ {conn_fd}
    /\ closes' = [closes EXCEPT ![conn_fd] = @ + 1]
    /\ pc' = "loop"
    /\ UNCHANGED << sendVars, sig_logged,
                    exit_flag, exit_status, sockVars, conn_fd, acc_ret, err_no,
                    fileVars, bufVars, caller, histVars >>

(* ---------------- main: the receive loop ------------------------------- *)

\* recv() returns n > 0 bytes, at most MAX_RECV_BUF_LEN - total_received;
\* total_received += msg_len.  A connection that was shut down may still
\* deliver bytes that were queued before.
RecvData ==
    /\ pc = "recv"
    /\ conn_fd \in open_conns
    /\ \E chunk \in Chunks(Min(MAX_RECV_BUF_LEN - total_received,
                               MaxBytes - nbytes)) :
          /\ receive_buffer' = receive_buffer \o chunk
          /\ msg_len' = Len(chunk)
          /\ stream' = stream \o chunk
          /\ nbytes' = nbytes + Len(chunk)
    /\ pc' = "scan"
    /\ UNCHANGED << sendVars, sig_logged,
                    exit_flag, exit_status, sockVars, connVars, fileVars,
                    line_len, caller, faults, conn_count, appended, echoes,
                    echo_calls, sfb_fails, io_fails, prior, at_open >>

\* recv() returns 0: the peer closed, the connection was shut down, or 0
\* bytes were asked for
RecvZero ==
    /\ pc = "recv"
    /\ msg_len' = 0
    /\ pc' = "tail"
    /\ UNCHANGED << sendVars, sig_logged,
                    exit_flag, exit_status, sockVars, connVars, fileVars,
                    receive_buffer, line_len, caller, faults, histVars >>

\* recv() fails for a reason of the network (ECONNRESET, ...)
RecvError ==
    /\ pc = "recv"
    /\ conn_fd \notin shut_conns
    /\ faults < MaxFaults
    /\ faults' = faults + 1
    /\ msg_len' = -1
    /\ pc' = "tail"
    /\ UNCHANGED << sendVars, sig_logged,
                    exit_flag, exit_status, sockVars, connVars, fileVars,
                    receive_buffer, line_len, caller, histVars >>

\* recv() is interrupted by the signal whose handler shut the connection down
RecvIntr ==
    /\ pc = "recv"
    /\ conn_fd \in shut_conns
    /\ msg_len' = -1
    /\ pc' = "tail"
    /\ UNCHANGED << sendVars, sig_logged,
                    exit_flag, exit_status, sockVars, connVars, fileVars,
                    receive_buffer, line_len, caller, faults, histVars >>

\* what fwrite adds to the history of the session
Logged(log, where, bytes) == Append(log, [site |-> where, data |-> bytes])

\* while((nl = memchr(...))) finds a newline: line_len = nl - receive_buffer
\* + 1; fwrite(receive_buffer, 1, line_len, fp); send_file_back is entered
ScanLine ==
    /\ pc = "scan"
    /\ Memchr(receive_buffer) > 0
    /\ line_len' = Memchr(receive_buffer)
    /\ fbuf' = Fwrite(fbuf, SubSeq(receive_buffer, 1, line_len'))
    /\ appended' = Logged(appended, "line", SubSeq(receive_buffer, 1, line_len'))
    /\ caller' = "line"
    /\ echo_calls' = echo_calls + 1
    /\ pc' = "sfb_flush"
    /\ UNCHANGED << sendVars, sig_logged,
                    exit_flag, exit_status, sockVars, connVars, fp_open, file,
                    file_exists, synced, receive_buffer, msg_len, faults,
                    conn_count, nbytes, stream, echoes, sfb_fails, io_fails,
                    prior, at_open >>

\* memchr finds no newline: the inner loop ends
ScanNone ==
    /\ pc = "scan"
    /\ Memchr(receive_buffer) = 0
    /\ pc' = "sat"
    /\ UNCHANGED << sendVars, sig_logged,
                    exit_flag, exit_status, sockVars, connVars, fileVars,
                    bufVars, caller, faults, histVars >>

\* the flush of a full buffer without total_received = 0
SatFlushKeepsPending ==
    /\ pc = "sat"
    /\ total_received >= MAX_RECV_BUF_LEN
    /\ file' = Fflush(file, Fwrite(fbuf, receive_buffer))
    /\ fbuf' = << >>
    /\ synced' = FALSE
    /\ appended' = Logged(appended, "sat", receive_buffer)
    /\ pc' = "recv"
    /\ UNCHANGED << sendVars, sig_logged,
                    exit_flag, exit_status, sockVars, connVars, fp_open,
                    file_exists, bufVars, caller, faults, conn_count, nbytes,
                    stream, echoes, echo_calls, sfb_fails, io_fails, prior,
                    at_open >>

\* if (total_received >= MAX_RECV_BUF_LEN): fwrite the whole buffer,
\* total_received = 0, fflush(fp) succeeds
SatFlush ==
    /\ pc = "sat"
    /\ total_received >= MAX_RECV_BUF_LEN
    /\ file' = Fflush(file, Fwrite(fbuf, receive_buffer))
    /\ fbuf' = << >>
    /\ synced' = FALSE
    /\ appended' = Logged(appended, "sat", receive_buffer)
    /\ receive_buffer' = << >>
    /\ pc' = "recv"
    /\ UNCHANGED << sendVars, sig_logged,
                    exit_flag, exit_status, sockVars, connVars, fp_open,
                    file_exists, msg_len, line_len, caller, faults, conn_count,
                    nbytes, stream, echoes, echo_calls, sfb_fails, io_fails,
                    prior, at_open >>

\* the same, but fflush(fp) fails; its result is not looked at.  The stream
\* keeps the unwritten bytes or drops them.
SatFlushFail ==
    /\ pc = "sat"
    /\ total_received >= MAX_RECV_BUF_LEN
    /\ faults < MaxFaults
    /\ faults' = faults + 1
    /\ \E kept \in BOOLEAN :
          fbuf' = IF kept THEN Fwrite(fbuf, receive_buffer) ELSE << >>
    /\ appended' = Logged(appended, "sat", receive_buffer)
    /\ io_fails' = io_fails + 1
    /\ receive_buffer' = << >>
    /\ pc' = "recv"
    /\ UNCHANGED << sendVars, sig_logged,
                    exit_flag, exit_status, sockVars, connVars, fp_open, file,
                    file_exists, synced, msg_len, line_len, caller, conn_count,
                    nbytes, stream, echoes, echo_calls, sfb_fails, prior,
                    at_open >>

\* line 358 without its test: back to recv() with a full buffer
SatSkipAlways ==
    /\ pc = "sat"
    /\ pc' = "recv"
    /\ UNCHANGED << sendVars, sig_logged,
                    exit_flag, exit_status, sockVars, connVars, fileVars,
                    bufVars, caller, faults, histVars >>

\* total_received < MAX_RECV_BUF_LEN: back to recv()
SatSkip ==
    /\ pc = "sat"
    /\ total_received < MAX_RECV_BUF_LEN
    /\ pc' = "recv"
    /\ UNCHANGED << sendVars, sig_logged,
                    exit_flag, exit_status, sockVars, connVars, fileVars,
                    bufVars, caller, faults, histVars >>

\* after the receive loop, if(total_received > 0): fwrite the pending bytes;
\* send_file_back is entered
TailWrite ==
    /\ pc = "tail"
    /\ total_received > 0
    /\ fbuf' = Fwrite(fbuf, receive_buffer)
    /\ appended' = Logged(appended, "tail", receive_buffer)
    /\ caller' = "tail"
    /\ echo_calls' = echo_calls + 1
    /\ pc' = "sfb_flush"
    /\ UNCHANGED << sendVars, sig_logged,
                    exit_flag, exit_status, sockVars, connVars, fp_open, file,
                    file_exists, synced, bufVars, faults, conn_count, nbytes,
                    stream, echoes, sfb_fails, io_fails, prior, at_open >>

\* total_received = 0 after the receive loop
TailNone ==
    /\ pc = "tail"
    /\ total_received = 0
    /\ pc' = "close"
    /\ UNCHANGED << sendVars, sig_logged,
                    exit_flag, exit_status, sockVars, connVars, fileVars,
                    bufVars, caller, faults, histVars >>

(* ---------------- send_file_back --------------------------------------- *)

\* where main goes on when send_file_back returns -1: the break of line 352
\* leaves the memchr loop (line 358), the break of line 368 leaves the
\* accept loop (line 385)
AfterSfbFail(site) == IF site = "line" THEN "sat" ELSE "shutdown"

\* where main goes on when send_file_back returns 0
AfterSfbOk(site) == IF site = "line" THEN "scan" ELSE "close"

\* the pending bytes when send_file_back returned 0: lines 354-356 drop the
\* record (line 349 call site), line 370 sets total_received = 0
AfterEcho(site, buf, n) == IF site = "line" THEN Compact(buf, n) ELSE << >>

\* send_file_back without its fflush: the record stays in the stream's buffer
SfbFlushSkipped ==
    /\ pc = "sfb_flush"
    /\ pc' = "sfb_sync"
    /\ UNCHANGED << sendVars, sig_logged,
                    exit_flag, exit_status, sockVars, connVars, fileVars,
                    bufVars, caller, faults, histVars >>

\* fflush(fp) succeeds
SfbFlushOk ==
    /\ pc = "sfb_flush"
    /\ file' = Fflush(file, fbuf)
    /\ fbuf' = << >>
    /\ synced' = FALSE
    /\ pc' = "sfb_sync"
    /\ UNCHANGED << sendVars, sig_logged,
                    exit_flag, exit_status, sockVars, connVars, fp_open,
                    file_exists, bufVars, caller, faults, histVars >>

\* fflush(fp) fails: return -1.  The stream keeps the unwritten bytes or
\* drops them.
SfbFlushFail ==
    /\ pc = "sfb_flush"
    /\ faults < MaxFaults
    /\ faults' = faults + 1
    /\ \E kept \in BOOLEAN : fbuf' = IF kept THEN fbuf ELSE << >>
    /\ sfb_fails' = sfb_fails + 1
    /\ pc' = AfterSfbFail(caller)
    /\ UNCHANGED << sendVars, sig_logged,
                    exit_flag, exit_status, sockVars, connVars, fp_open, file,
                    file_exists, synced, bufVars, caller, conn_count, nbytes,
                    stream, appended, echoes, echo_calls, io_fails, prior,
                    at_open >>

\* fsync(fileno(fp)) succeeds
SfbSyncOk ==
    /\ pc = "sfb_sync"
    /\ synced' = TRUE
    /\ pc' = "sfb_send"
    /\ UNCHANGED << sendVars, sig_logged,
                    exit_flag, exit_status, sockVars, connVars, fp_open, fbuf,
                    file, file_exists, bufVars, caller, faults, histVars >>

\* fsync fails: return -1
SfbSyncFail ==
    /\ pc = "sfb_sync"
    /\ faults < MaxFaults
    /\ faults' = faults + 1
    /\ sfb_fails' = sfb_fails + 1
    /\ pc' = AfterSfbFail(caller)
    /\ UNCHANGED << sendVars, sig_logged,
                    exit_flag, exit_status, sockVars, connVars, fileVars,
                    bufVars, caller, conn_count, nbytes, stream, appended,
                    echoes, echo_calls, io_fails, prior, at_open >>

\* what a complete echo adds to the history
Echoed(log, c, bytes) == Append(log, [conn |-> c, data |-> bytes])

\* rewind; every fread and sendall succeeds; fseek(fp, 0, SEEK_END)
\* succeeds: return 0, and main drops what it appended from the buffer.
\* send() on a connection that was shut down fails (SIGPIPE is ignored).
SfbSendOk ==
    /\ pc = "sfb_send"
    /\ conn_fd \in open_conns \ shut_conns
    /\ echoes' = Echoed(echoes, conn_fd, ReadAll(file))
    /\ receive_buffer' = AfterEcho(caller, receive_buffer, line_len)
    /\ pc' = AfterSfbOk(caller)
    /\ UNCHANGED << sendVars, sig_logged,
                    exit_flag, exit_status, sockVars, connVars, fileVars,
                    msg_len, line_len, caller, faults, conn_count, nbytes,
                    stream, appended, echo_calls, sfb_fails, io_fails, prior,
                    at_open >>

\* a send() fails because the connection was shut down by the handler:
\* return -1
SfbSendShut ==
    /\ pc = "sfb_send"
    /\ conn_fd \in shut_conns
    /\ sfb_fails' = sfb_fails + 1
    /\ pc' = AfterSfbFail(caller)
    /\ UNCHANGED << sendVars, sig_logged,
                    exit_flag, exit_status, sockVars, connVars, fileVars,
                    bufVars, caller, faults, conn_count, nbytes, stream,
                    appended, echoes, echo_calls, io_fails, prior, at_open >>

\* a send() fails (EPIPE, ECONNRESET), or fread fails, after part of the
\* file was sent: return -1
SfbSendFail ==
    /\ pc = "sfb_send"
    /\ conn_fd \notin shut_conns
    /\ faults < MaxFaults
    /\ faults' = faults + 1
    /\ sfb_fails' = sfb_fails + 1
    /\ pc' = AfterSfbFail(caller)
    /\ UNCHANGED << sendVars, sig_logged,
                    exit_flag, exit_status, sockVars, connVars, fileVars,
                    bufVars, caller, conn_count, nbytes, stream, appended,
                    echoes, echo_calls, io_fails, prior, at_open >>

\* the whole file was sent and fseek(fp, 0, SEEK_END) fails: return -1
SfbSeekFail ==
    /\ pc = "sfb_send"
    /\ conn_fd \in open_conns \ shut_conns
    /\ faults < MaxFaults
    /\ faults' = faults + 1
    /\ echoes' = Echoed(echoes, conn_fd, ReadAll(file))
    /\ sfb_fails' = sfb_fails + 1
    /\ pc' = AfterSfbFail(caller)
    /\ UNCHANGED << sendVars, sig_logged,
                    exit_flag, exit_status, sockVars, connVars, fileVars,
                    bufVars, caller, conn_count, nbytes, stream, appended,
                    echo_calls, io_fails, prior, at_open >>

(* ---------------- main: end of a session, shutdown phase --------------- *)

\* the end of a session without close(conn_fd)
CloseSessionLeavesConn ==
    /\ pc = "close"
    /\ file' = Fflush(file, fbuf)
    /\ fbuf' = << >>
    /\ synced' = (fbuf = << >>)
    /\ fp_open' = FALSE
    /\ conn_fd' = NoFd
    /\ pc' = "loop"
    /\ UNCHANGED << sendVars, sig_logged,
                    exit_flag, exit_status, sockVars, acc_ret, err_no,
                    open_conns, shut_conns, closes, file_exists, bufVars,
                    caller, faults, histVars >>

\* lines 372-377: fsync(fileno(fp)); fclose(fp), which flushes the stream;
\* close(conn_fd); conn_fd = -1
CloseSession ==
    /\ pc = "close"
    /\ file' = Fflush(file, fbuf)
    /\ fbuf' = << >>
    /\ synced' = (fbuf = << >>)
    /\ fp_open' = FALSE
    /\ open_conns' = open_conns \ {conn_fd}
    /\ shut_conns' = shut_conns \ {conn_fd}
    /\ closes' = [closes EXCEPT ![conn_fd] = @ + 1]
    /\ conn_fd' = NoFd
    /\ pc' = "loop"
    /\ UNCHANGED << sendVars, sig_logged,
                    exit_flag, exit_status, sockVars, acc_ret, err_no,
                    file_exists, bufVars, caller, faults, histVars >>

\* the same, but the write of fclose(fp) fails and the buffered bytes are
\* lost; the result of fclose is not looked at
CloseSessionFail ==
    /\ pc = "close"
    /\ fbuf # << >>
    /\ fbuf' = << >>
    /\ synced' = TRUE
    /\ fp_open' = FALSE
    /\ open_conns' = open_conns \ {conn_fd}
    /\ shut_conns' = shut_conns \ {conn_fd}
    /\ closes' = [closes EXCEPT ![conn_fd] = @ + 1]
    /\ conn_fd' = NoFd
    /\ pc' = "loop"
    /\ UNCHANGED << sendVars, sig_logged,
                    exit_flag, exit_status, sockVars, acc_ret, err_no, file,
                    file_exists, bufVars, caller, faults, histVars >>

\* a shutdown phase without lines 385-389: the active connection stays open
ShutdownLeavesConn ==
    /\ pc = "shutdown"
    /\ file_exists' = FALSE
    /\ file' = << >>
    /\ sock_state' = "closed"
    /\ exit_status' = "EXIT_SUCCESS"
    /\ pc' = "exited"
    /\ UNCHANGED << sendVars, sig_logged,
                    exit_flag, sock_fd, connVars, fp_open, fbuf, synced,
                    bufVars, caller, faults, histVars >>

\* lines 385-406: close(conn_fd) if conn_fd != -1; unlink(DATA_FILE);
\* close(sock_fd); return EXIT_SUCCESS
Shutdown ==
    /\ pc = "shutdown"
    /\ open_conns' = IF conn_fd # NoFd THEN open_conns \ {conn_fd}
                                       ELSE open_conns
    /\ shut_conns' = IF conn_fd # NoFd THEN shut_conns \ {conn_fd}
                                       ELSE shut_conns
    /\ closes' = IF conn_fd # NoFd THEN [closes EXCEPT ![conn_fd] = @ + 1]
                                   ELSE closes
    /\ conn_fd' = NoFd
    /\ file_exists' = FALSE
    /\ file' = << >>
    /\ sock_state' = "closed"
    /\ exit_status' = "EXIT_SUCCESS"
    /\ pc' = "exited"
    /\ UNCHANGED << sendVars, sig_logged,
                    exit_flag, sock_fd, acc_ret, err_no, fp_open, fbuf, synced,
                    bufVars, caller, faults, histVars >>

(* ---------------- specification ---------------------------------------- *)

Next ==
    \/ signal_handler
    \/ Startup
    \/ SocketOk
    \/ SocketFail
    \/ BindOk
    \/ BindFail
    \/ DaemonContinue
    \/ ForkFail
    \/ Listen
    \/ LoopCheck
    \/ AcceptConn
    \/ AcceptShut
    \/ AcceptError
    \/ AcceptStore
    \/ FopenOk
    \/ FopenFail
    \/ RecvData
    \/ RecvZero
    \/ RecvError
    \/ RecvIntr
    \/ ScanLine
    \/ ScanNone
    \/ SatFlush
    \/ SatFlushFail
    \/ SatSkip
    \/ TailWrite
    \/ TailNone
    \/ SfbFlushOk
    \/ SfbFlushFail
    \/ SfbSyncOk
    \/ SfbSyncFail
    \/ SfbSendOk
    \/ SfbSendShut
    \/ SfbSendFail
    \/ SfbSeekFail
    \/ CloseSession
    \/ CloseSessionFail
    \/ Shutdown

Spec == Init /\ [][Next]_vars

(* ---------------- sendall ---------------------------------------------- *)

\* length of the buffers given to sendall
MaxSendLen == 3

\* the variables of the server
serverVars == << pc, exit_flag, exit_status, sig_logged, sockVars, connVars,
                 fileVars,
                 bufVars, caller, faults, histVars >>

\* the buffers given to sendall: every byte sequence of length 0..MaxSendLen
SendBufs == UNION { [1..k -> Byte] : k \in 0..MaxSendLen }

\* the values send(fd, buf + offset, remaining, 0) can return: -1 for an
\* error, or the number of bytes it accepted, 0..remaining
SendResults(remaining) == {-1} \cup (0..remaining)

\* sendall(fd, buf, len) is called: offset = 0
SendallInit ==
    /\ InitServer
    /\ sa_pc = "while"
    /\ sa_buf \in SendBufs
    /\ sa_offset = 0
    /\ sa_n = 0
    /\ sa_ret = 0
    /\ sa_sent = << >>

\* while (offset < len), and return 0 after the loop
SendallWhile ==
    /\ sa_pc = "while"
    /\ IF sa_offset < Len(sa_buf)
       THEN sa_pc' = "send" /\ sa_ret' = sa_ret
       ELSE sa_pc' = "returned" /\ sa_ret' = 0
    /\ UNCHANGED << serverVars, sa_buf, sa_offset, sa_n, sa_sent >>

\* n = send(fd, buf + offset, len - offset, 0): the bytes the call accepts
\* are the first n from buf + offset
SendallSend ==
    /\ sa_pc = "send"
    /\ \E n \in SendResults(Len(sa_buf) - sa_offset) :
          /\ sa_n' = n
          /\ sa_sent' = IF n > 0
                        THEN sa_sent \o SubSeq(sa_buf, sa_offset + 1,
                                               sa_offset + n)
                        ELSE sa_sent
    /\ sa_pc' = "check"
    /\ UNCHANGED << serverVars, sa_buf, sa_offset, sa_ret >>

\* if (n < 0) return -1
SendallError ==
    /\ sa_pc = "check"
    /\ sa_n < 0
    /\ sa_ret' = -1
    /\ sa_pc' = "returned"
    /\ UNCHANGED << serverVars, sa_buf, sa_offset, sa_n, sa_sent >>

\* if (n == 0) continue
SendallZero ==
    /\ sa_pc = "check"
    /\ sa_n = 0
    /\ sa_pc' = "while"
    /\ UNCHANGED << serverVars, sa_buf, sa_offset, sa_n, sa_ret, sa_sent >>

\* offset += n without the advance past the bytes a partial send accepted
SendallAdvanceByOne ==
    /\ sa_pc = "check"
    /\ sa_n > 0
    /\ sa_offset' = sa_offset + 1
    /\ sa_pc' = "while"
    /\ UNCHANGED << serverVars, sa_buf, sa_n, sa_ret, sa_sent >>

\* offset += (size_t)n
SendallAdvance ==
    /\ sa_pc = "check"
    /\ sa_n > 0
    /\ sa_offset' = sa_offset + sa_n
    /\ sa_pc' = "while"
    /\ UNCHANGED << serverVars, sa_buf, sa_n, sa_ret, sa_sent >>

SendallNext ==
    \/ SendallWhile
    \/ SendallSend
    \/ SendallError
    \/ SendallZero
    \/ SendallAdvance

\* one call of sendall, for every buffer and every sequence of send() results
SpecSendall == SendallInit /\ [][SendallNext]_vars

\* the same, with a call that keeps running: send() returns, and the code
\* between two send() calls is executed
SpecSendallFair == SendallInit /\ [][SendallNext]_vars /\ WF_vars(SendallNext)

(* ---------------- vocabulary of the properties -------------------------- *)

\* the number of newlines of s
NumNL(s) == Cardinality({ i \in 1..Len(s) : s[i] = NL })

\* the first n newline-terminated records of byte stream s, concatenated
FirstRecords(s, n) ==
    IF n = 0 THEN << >>
    ELSE SubSeq(s, 1, CHOOSE i \in 1..Len(s) :
                         /\ s[i] = NL
                         /\ Cardinality({ j \in 1..i : s[j] = NL }) = n)

\* the bytes of a sequence of fwrite calls, concatenated
RECURSIVE Flatten(_)
Flatten(log) ==
    IF log = << >> THEN << >> ELSE Flatten(SubSeq(log, 1, Len(log) - 1))
                                   \o log[Len(log)].data

\* s holds a newline
HasNL(s) == \E i \in 1..Len(s) : s[i] = NL

\* one newline-terminated record: a newline at the end and nowhere else
IsRecord(s) ==
    /\ Len(s) > 0
    /\ s[Len(s)] = NL
    /\ \A i \in 1..(Len(s) - 1) : s[i] # NL

\* a session is being served: fp is open
InSession == fp_open /\ pc \notin {"shutdown", "exited"}

\* the main flow is inside send_file_back
InSfb == pc \in {"sfb_flush", "sfb_sync", "sfb_send"}

\* no call on the store or the socket has failed during the session
CleanSession == sfb_fails = 0 /\ io_fails = 0

(* ---------------- C1 ---------------------------------------------------- *)

C2_EchoesGrow ==
    /\ \A n \in 2..Len(echoes) : IsPrefix(echoes[n - 1].data, echoes[n].data)
    /\ \A n \in 1..Len(echoes) :
          ( /\ InSession
            /\ echoes[n].conn = conn_fd
            /\ conn_fd > 1
            /\ (n = 1 \/ echoes[n - 1].conn # conn_fd)
            /\ NumNL(stream) >= 1 )
          => echoes[n].data = at_open \o FirstRecords(stream, 1)

(* ---------------- C3 ---------------------------------------------------- *)

\* the session has received, so far, a piece of one record shorter than the
\* buffer: no newline except possibly as the last byte
OneRecordSoFar ==
    /\ InSession
    /\ stream # << >>
    /\ ~HasNL(stream) \/ IsRecord(stream)
    /\ Len(stream) < MAX_RECV_BUF_LEN

\* the main flow is inside the receive loop (lines 340-363)
InRecvLoop ==
    \/ pc \in {"recv", "scan", "sat"}
    \/ InSfb /\ caller = "line"

\* C3: while a single record that fits the buffer is being delivered, in any
\* partition, the receive loop appends nothing and calls no echo before the
\* newline has arrived; in the iteration in which it arrives the loop makes
\* exactly one append, of the whole record, and exactly one echo call.
C3_OneAppendOneEcho ==
    (OneRecordSoFar /\ InRecvLoop) =>
        IF ~HasNL(stream) \/ (pc = "scan" /\ receive_buffer = stream)
        THEN appended = << >> /\ echo_calls = 0
        ELSE /\ appended = << [site |-> "line", data |-> stream] >>
             /\ echo_calls = 1

\* C3 witness: a record delivered in two pieces has been appended and echoed
C3_Witness ==
    /\ OneRecordSoFar /\ pc = "recv"
    /\ stream = <<97, NL>>
    /\ msg_len = 1
    /\ appended = << [site |-> "line", data |-> <<97, NL>>] >>
    /\ echo_calls = 1
    /\ Len(echoes) = 1

(* ---------------- C4 ---------------------------------------------------- *)

\* C4: as long as no termination signal has been handled, the server that
\* finished its setup neither leaves the accept loop nor exits, whatever
\* failed while a connection was served.
C4_ServerKeepsServing ==
    exit_flag = 0 =>
        /\ pc # "shutdown"
        /\ pc = "exited" => exit_status = "EXIT_FAILURE"

(* ---------------- C5 ---------------------------------------------------- *)

\* C5: once send_file_back has failed in a session, the handler is on its
\* way to closing the connection: it does not call recv again and does not
\* append again.
C5_AbortAfterFailedEcho ==
    /\ (InSession /\ sfb_fails > 0) => pc \in {"sat", "tail", "close"}
    /\ (pc = "loop" /\ sfb_fails > 0) => open_conns = {}

(* ---------------- C6 ---------------------------------------------------- *)

\* C6: when a connection is opened the data file holds exactly the completed
\* records of the earlier connections, and when an echo reads the file back
\* it holds those followed by the first k completed records of this
\* connection, for some k.
C6_StoreIsCompletedRecords ==
    /\ InSession => at_open = prior
    /\ pc = "sfb_send" =>
          \E k \in 0..NumNL(stream) :
              file = prior \o FirstRecords(stream, k)

(* ---------------- C7 ---------------------------------------------------- *)

\* a complete echo is sent only when the last thing written to the stream
\* is one newline-terminated record
RecordEchoStep ==
    echoes' # echoes =>
        /\ appended # << >>
        /\ IsRecord(appended[Len(appended)].data)

\* C7: the file is sent only right after the append of one newline-terminated
\* record; nothing else in a session makes the server send it.
C7_EchoOnlyAfterRecord == [][RecordEchoStep]_vars

(* ---------------- C8 ---------------------------------------------------- *)

\* the main flow is at line 358 with a full buffer that holds no newline
Saturated ==
    /\ pc = "sat"
    /\ Len(receive_buffer) >= MAX_RECV_BUF_LEN
    /\ ~HasNL(receive_buffer)

\* the pending bytes that main has not yet written to the stream: inside
\* send_file_back, the buffer without what was written just before the call
Pending ==
    IF InSfb
    THEN SubSeq(receive_buffer, Len(appended[Len(appended)].data) + 1,
                Len(receive_buffer))
    ELSE receive_buffer

\* the step of the main flow out of a saturated buffer writes the whole
\* pending content to the stream (and, when its fflush succeeds, to the end of
\* the file), resets the pending length to 0, goes back to recv, and neither
\* calls send_file_back nor sends an echo
SatStep ==
    (Saturated /\ pc' # pc) =>
        /\ appended' = Append(appended,
                              [site |-> "sat", data |-> receive_buffer])
        /\ faults' = faults => IsSuffix(receive_buffer, file')
        /\ receive_buffer' = << >>
        /\ pc' = "recv"
        /\ echoes' = echoes
        /\ echo_calls' = echo_calls

\* in a session in which no echo has failed, what was written to the stream
\* followed by the pending bytes is the byte stream received: a byte flushed
\* at saturation is neither lost nor written again with the rest of its record
NoLossNoDup ==
    (InSession /\ sfb_fails = 0) => Flatten(appended) \o Pending = stream

ReadAfterSync ==
    pc = "sfb_send" =>
        /\ appended # << >>
        /\ fbuf = << >>
        /\ synced
        /\ IsSuffix(appended[Len(appended)].data, file)

\* a complete echo ends with what main wrote last
EchoStep ==
    echoes' # echoes =>
        /\ Len(echoes') = Len(echoes) + 1
        /\ appended # << >>
        /\ IsSuffix(appended[Len(appended)].data, echoes'[Len(echoes')].data)

\* C9: the append, the flush and the sync of a record come before the first
\* read of its echo, and the echo ends with the record just appended.
C9_AppendThenEcho == []ReadAfterSync /\ [][EchoStep]_vars

\* C9 witness: the second record of a connection is about to be read back for
\* its echo
C9_Witness ==
    /\ pc = "sfb_send"
    /\ caller = "line"
    /\ Len(appended) = 2
    /\ appended[2].data = <<97, NL>>
    /\ file = <<NL, 97, NL>>
    /\ fbuf = << >>
    /\ synced

(* ---------------- C10 --------------------------------------------------- *)

\* the steps of the main flow that do not wait for a peer: every call that
\* returns at once, and accept() or recv() on a socket the handler shut down
NonBlocking ==
    \/ Startup \/ SocketOk \/ SocketFail \/ BindOk \/ BindFail
    \/ DaemonContinue \/ ForkFail \/ Listen \/ LoopCheck
    \/ AcceptShut \/ AcceptStore \/ FopenOk \/ FopenFail
    \/ RecvIntr \/ (RecvZero /\ conn_fd \in shut_conns)
    \/ ScanLine \/ ScanNone \/ SatFlush \/ SatFlushFail \/ SatSkip
    \/ TailWrite \/ TailNone
    \/ SfbFlushOk \/ SfbFlushFail \/ SfbSyncOk \/ SfbSyncFail
    \/ SfbSendOk \/ SfbSendShut \/ SfbSendFail \/ SfbSeekFail
    \/ CloseSession \/ CloseSessionFail \/ Shutdown

\* the main flow keeps running: a call that can return does return
SpecFair == Init /\ [][Next]_vars /\ WF_vars(NonBlocking)

\* the server is in accept() with no connection open and the handler has run
SignalledInAccept == pc = "accept" /\ exit_flag = 1 /\ open_conns = {}

\* the process has exited with success, the data file is removed and the
\* listening socket is closed
CleanExit ==
    /\ pc = "exited"
    /\ exit_status = "EXIT_SUCCESS"
    /\ ~file_exists
    /\ sock_state = "closed"
    /\ open_conns = {}

\* C10: a termination signal handled while the server is in accept() with
\* no active connection leads to the exit of the process with success, the
\* data file removed and the listening socket closed.
C10_SignalInAcceptExits == SignalledInAccept ~> CleanExit

\* C10 witness: the server has exited cleanly through an accept() that the
\* signal interrupted, after serving one connection
C10_Witness ==
    /\ CleanExit
    /\ exit_flag = 1
    /\ err_no = "EINTR"
    /\ acc_ret = NoFd
    /\ conn_count = 1
    /\ echoes # << >>

(* ---------------- C11 --------------------------------------------------- *)

\* the main flow is at a call that waits for a peer: accept() on a socket
\* that listens, recv() on a connection that was not shut down
Blocked ==
    \/ pc = "accept" /\ sock_state = "listening"
    \/ pc = "recv" /\ conn_fd \notin shut_conns

\* the handler has run while the main flow was in recv() of a session: the
\* connection is shut down
SignalledInRecv ==
    /\ pc = "recv"
    /\ exit_flag = 1
    /\ conn_fd \in open_conns
    /\ conn_fd \in shut_conns

\* C11: a termination signal handled while the server is in recv() in the
\* middle of a session, with or without pending bytes, leads to the exit of
\* the process with success and the connection socket closed, and from then
\* on the main flow is never again at a call that can block.
C11_SignalInRecvExits ==
    /\ SignalledInRecv ~> CleanExit
    /\ [](SignalledInRecv => [](~Blocked))

\* C11 witness: the server has exited cleanly after recv() returned -1 on the
\* connection the handler shut down, with an unterminated byte pending
C11_Witness ==
    /\ CleanExit
    /\ exit_flag = 1
    /\ conn_count = 1
    /\ stream = <<97>>
    /\ receive_buffer = <<97>>
    /\ msg_len = -1
    /\ faults = 0
    /\ closes[1] = 1

(* ---------------- C12 --------------------------------------------------- *)

\* C12: wherever the main flow is when the handler runs, and whatever the
\* client does (a client that stays connected and sends nothing included),
\* once a termination signal has been handled the process eventually exits
\* with success, the data file removed and both sockets closed (unless its
\* setup fails, which ends it with failure status).
C12_SignalAlwaysExits ==
    (exit_flag = 1) ~> (CleanExit \/ exit_status = "EXIT_FAILURE")

(* ---------------- C13 --------------------------------------------------- *)

\* a process that exited with failure status never reached the serve loop:
\* accept() was never called, the data file was never opened, and the
\* listening socket is not open
FailedBeforeServing ==
    exit_status = "EXIT_FAILURE" =>
        /\ pc = "exited"
        /\ conn_count = 0
        /\ acc_ret = NoFd
        /\ err_no = "none"
        /\ ~fp_open
        /\ ~file_exists
        /\ sock_state \in {"none", "closed"}

\* the process leaves its setup (socket, bind, daemon-mode fork) for its
\* exit only with failure status
SetupExitStep ==
    (pc \in {"socket", "bind", "daemon"} /\ pc' = "exited") =>
        exit_status' = "EXIT_FAILURE"

\* C13: when socket(), bind() or the daemon-mode fork() fails, the process
\* exits with failure status before the serve loop: no accept() call, the data
\* file never opened, and no listening socket left open.
C13_SetupFailureExits == []FailedBeforeServing /\ [][SetupExitStep]_vars

\* C13 witness: bind() failed on the created socket; the process has exited
\* with failure status and the socket is closed
C13_Witness ==
    /\ pc = "exited"
    /\ exit_status = "EXIT_FAILURE"
    /\ sock_fd = ListenFd
    /\ sock_state = "closed"
    /\ conn_count = 0

(* ---------------- C14 --------------------------------------------------- *)

\* the last accept() call returned an error and main has not called accept()
\* again
AcceptFailed == acc_ret = NoFd /\ err_no # "none"

\* the steps of the main flow from a failed accept() to the next call: with
\* the flag not set, the test of lines 312-316 goes back to the loop condition
\* and the loop condition goes to accept(); with the flag set the loop is left
\* at line 313 or at the loop condition, whatever the errno; neither step
\* opens the file, touches the store or the buffer, or closes a connection
AcceptErrorStep ==
    /\ (pc = "accepted" /\ AcceptFailed /\ pc' # pc) =>
          /\ pc' \in {"loop", "shutdown"}
          /\ exit_flag = 0 => pc' = "loop"
          /\ UNCHANGED << fileVars, bufVars, open_conns, closes, histVars >>
    /\ (pc = "loop" /\ AcceptFailed /\ pc' # pc) =>
          /\ pc' = IF exit_flag = 1 THEN "shutdown" ELSE "accept"
          /\ UNCHANGED << fileVars, bufVars, open_conns, closes, histVars >>

\* C14: after an accept() error the server leaves the accept loop when the
\* cancellation flag is set, whatever the errno, and calls accept() again when
\* it is not set; no connection handler runs and the store is not touched for
\* the failed accept.
C14_AcceptErrorHandling == [][AcceptErrorStep]_vars

\* C14 witness: accept() failed with no signal handled, and the server is in
\* accept() again
C14_Witness ==
    /\ pc = "accept"
    /\ exit_flag = 0
    /\ AcceptFailed
    /\ err_no = "ECONNABORTED"
    /\ exit_status = "running"

(* ---------------- C15 --------------------------------------------------- *)

\* with the cancellation flag set, a step of a session starts no append and
\* no echo
CancelledStep ==
    (exit_flag = 1 /\ InSession) =>
        /\ appended' = appended
        /\ echo_calls' = echo_calls

\* C15: once the cancellation flag is set, the connection handler starts no
\* further append to the store and no further echo for the active connection:
\* records in the buffer or arriving later, and leftover unterminated bytes,
\* are not written.
C15_CancelStopsHandler == [][CancelledStep]_vars

(* ---------------- C16 --------------------------------------------------- *)

\* C16: at every recv() call of a session the bytes the session has written
\* to the stream, followed by the pending bytes of receive_buffer, are the
\* byte stream received so far: no byte is lost, out of order, or both
\* written and pending.
C16_PendingIsUnappended ==
    (InSession /\ pc = "recv") =>
        Flatten(appended) \o receive_buffer = stream

(* ---------------- C17 --------------------------------------------------- *)

\* C17: connections are handled one at a time: at most one accepted
\* connection socket is open in any state, and none is open when main calls
\* accept().
C17_OneConnectionAtATime ==
    /\ Cardinality(open_conns) <= 1
    /\ pc = "accept" => open_conns = {}

\* C17 witness: the second connection is being served after the first was
\* closed
C17_Witness ==
    /\ pc = "recv"
    /\ conn_count = 2
    /\ conn_fd = 2
    /\ open_conns = {2}
    /\ closes[1] = 1

(* ---------------- C18 --------------------------------------------------- *)

\* what the send() calls have accepted is the start of buf, in order and
\* each byte once; offset never exceeds len, and between two send() calls it
\* is the number of bytes accepted
SentIsPrefix ==
    /\ sa_offset <= Len(sa_buf)
    /\ Len(sa_sent) <= Len(sa_buf)
    /\ sa_sent = SubSeq(sa_buf, 1, Len(sa_sent))
    /\ sa_pc \in {"while", "send"} => Len(sa_sent) = sa_offset

\* the return value: 0 only when all of buf was accepted, -1 only when the
\* last send() reported an error
SendallResult ==
    sa_pc = "returned" =>
        /\ sa_ret \in {0, -1}
        /\ sa_ret = 0 => (sa_sent = sa_buf /\ sa_offset = Len(sa_buf))
        /\ sa_ret = -1 => sa_n < 0

\* sendall returns -1 at the first send() that reports an error, and after it
\* has returned no byte is sent
ReturnStep ==
    /\ (sa_pc = "check" /\ sa_n < 0 /\ sa_pc' # sa_pc) =>
          (sa_pc' = "returned" /\ sa_ret' = -1 /\ sa_sent' = sa_sent)
    /\ sa_pc = "returned" => (sa_sent' = sa_sent /\ sa_pc' = "returned")

\* C18: sendall returns 0 only after its send() calls have accepted exactly
\* the len bytes of buf in order, every partial send resuming at the first
\* unsent byte, offset never above len and no byte sent twice; it returns -1
\* at the first send() that reports an error and sends nothing after it.
C18_SendallSendsAll ==
    /\ [](SentIsPrefix /\ SendallResult)
    /\ [][ReturnStep]_vars

\* C18 witness: a buffer of three bytes was accepted in two partial sends,
\* with a send that accepted nothing in between, and sendall returned 0
C18_Witness ==
    /\ sa_pc = "returned"
    /\ sa_ret = 0
    /\ sa_buf = <<97, NL, 97>>
    /\ sa_sent = <<97, NL, 97>>
    /\ sa_n = 1

(* ---------------- C19 --------------------------------------------------- *)

\* a run of the handler: the only step that leaves the main flow where it is
\* changes nothing but the cancellation flag and the shutdown state of the
\* two sockets, and writes nothing to the log
HandlerStep ==
    pc' = pc =>
        /\ UNCHANGED << sock_fd, conn_fd, acc_ret, open_conns, closes,
                        receive_buffer, msg_len, line_len, fileVars,
                        exit_status >>
        /\ sig_logged' = sig_logged

\* C19: the signal handler changes only the cancellation flag and the
\* shutdown state of the listening and the active connection socket; it
\* leaves sock_fd, conn_fd, the receive buffer, the pending length and the
\* store as they are and does no logging or other work that can block.
C19_HandlerFrame == [][HandlerStep]_vars

(* ---------------- C20 --------------------------------------------------- *)

\* C20: during a session the pending length stays within 0..MAX_RECV_BUF_LEN,
\* and at every recv() call it is below MAX_RECV_BUF_LEN, so that recv is
\* asked for at least one byte and receive_buffer[total_received] is inside
\* the buffer; also after a failed echo has left a record in the buffer.
C20_PendingLengthBounds ==
    InSession =>
        /\ total_received >= 0
        /\ total_received <= MAX_RECV_BUF_LEN
        /\ pc = "recv" => MAX_RECV_BUF_LEN - total_received > 0

\* C20 witness: a record that filled the buffer was left there by a failed
\* echo, and the handler is back at recv() with an empty buffer
C20_Witness ==
    /\ InSession
    /\ pc = "recv"
    /\ sfb_fails = 1
    /\ Len(stream) = MAX_RECV_BUF_LEN
    /\ IsRecord(stream)
    /\ Len(appended) = 2
    /\ appended[2] = [site |-> "sat", data |-> stream]
    /\ total_received = 0

(* ---------------- C21 --------------------------------------------------- *)

\* C21: every accepted connection descriptor is closed exactly once: no
\* descriptor is closed twice, conn_fd is -1 whenever the loop condition is
\* evaluated, and whenever conn_fd is not -1 it names an open connection, so
\* that neither the shutdown phase nor the handler acts on a descriptor that
\* was already closed.
C21_ClosedExactlyOnce ==
    /\ \A c \in 1..MaxConns : closes[c] <= 1
    /\ pc = "loop" => conn_fd = NoFd
    /\ conn_fd # NoFd => conn_fd \in open_conns

(* ---------------- C22 --------------------------------------------------- *)

\* an iteration of the loop that does not return goes back to the loop test
\* with a larger offset
IterationStep ==
    (sa_pc = "check" /\ sa_pc' = "while") => sa_offset' > sa_offset

\* C22: sendall always terminates: whatever the send() calls return
\* (negative, zero or positive), every iteration of its loop returns or
\* increases offset, and the call returns.
C22_SendallTerminates ==
    /\ [][IterationStep]_vars
    /\ <>(sa_pc = "returned")

====
